---- MODULE Spec2Model ----
(***************************************************************************)
(* The drive tool: DriveToolManager (movement of the camera along a        *)
(* selected curve, driven by an interval timer) and DriveTool (the tool    *)
(* that owns the manager and forwards the tool settings to it).            *)
(*                                                                         *)
(* JavaScript numbers are modelled as tagged pairs: <<"num", v>> is the    *)
(* finite number v / Scale (fixed point), and NaN, Infinity, -Infinity and *)
(* undefined are values of their own, with the comparison and arithmetic   *)
(* rules of IEEE 754 (every comparison with NaN is false).                 *)
(* An optional object field is a sequence: <<>> when undefined, <<x>> when *)
(* it holds x.                                                             *)
(***************************************************************************)
EXTENDS Integers, Sequences, FiniteSets, TLC

\* Fixed-point resolution: the finite number x is held as the integer x * Scale.
Scale == 36 * 10

Num(v) == <<"num", v>>
NaN == <<"NaN", 0>>
Infinity == <<"Infinity", 1>>
NegInfinity == <<"Infinity", -1>>
undefined == <<"undefined", 0>>

\* The decimal literal n / d.
Dec(n, d) == Num((n * Scale) \div d)

IsNaN(a) == a[1] \in {"NaN", "undefined"}
IsInf(a) == a[1] = "Infinity"
IsFinite(a) == a[1] = "num"
Rank(a) == IF IsInf(a) THEN a[2] ELSE 0
Sgn(v) == IF v > 0 THEN 1 ELSE IF v < 0 THEN -1 ELSE 0
SignOf(a) == IF IsInf(a) THEN a[2] ELSE Sgn(a[2])
Inf(s) == <<"Infinity", s>>

\* a < b, a <= b, a > b, a >= b on JavaScript numbers.
Lt(a, b) ==
    /\ ~IsNaN(a)
    /\ ~IsNaN(b)
    /\ \/ Rank(a) < Rank(b)
       \/ Rank(a) = Rank(b) /\ IsFinite(a) /\ IsFinite(b) /\ a[2] < b[2]
Le(a, b) == ~IsNaN(a) /\ ~IsNaN(b) /\ (Lt(a, b) \/ a = b)
Gt(a, b) == Lt(b, a)
Ge(a, b) == Le(b, a)

Neg(a) ==
    IF IsNaN(a) THEN NaN
    ELSE IF IsInf(a) THEN Inf(-a[2])
    ELSE Num(-a[2])

\* a + b
Add(a, b) ==
    IF IsNaN(a) \/ IsNaN(b) THEN NaN
    ELSE IF IsInf(a) /\ IsInf(b) THEN (IF a[2] = b[2] THEN a ELSE NaN)
    ELSE IF IsInf(a) THEN a
    ELSE IF IsInf(b) THEN b
    ELSE Num(a[2] + b[2])

\* a - b
Sub(a, b) == Add(a, Neg(b))

\* Integer quotient rounded toward minus infinity, for a divisor of either sign.
Quot(n, d) == IF d > 0 THEN n \div d ELSE (-n) \div (-d)

\* a * b
Mul(a, b) ==
    IF IsNaN(a) \/ IsNaN(b) THEN NaN
    ELSE IF IsInf(a) \/ IsInf(b)
         THEN (IF SignOf(a) * SignOf(b) = 0 THEN NaN ELSE Inf(SignOf(a) * SignOf(b)))
    ELSE Num(Quot(a[2] * b[2], Scale))

\* a / b
Div(a, b) ==
    IF IsNaN(a) \/ IsNaN(b) THEN NaN
    ELSE IF IsInf(a) /\ IsInf(b) THEN NaN
    ELSE IF IsInf(a) THEN Inf(IF SignOf(b) < 0 THEN -a[2] ELSE a[2])
    ELSE IF IsInf(b) THEN Num(0)
    ELSE IF b[2] = 0 THEN (IF a[2] = 0 THEN NaN ELSE Inf(Sgn(a[2])))
    ELSE Num(Quot(a[2] * Scale, b[2]))

(***************************************************************************)
(* DriveToolConfig                                                         *)
(***************************************************************************)
intervalTime == Dec(5, 10)

heightMin == Dec(1, 10)
heightMax == Dec(10, 1)
heightDefault == Dec(15, 10)

lateralOffsetMin == Dec(-5, 1)
lateralOffsetMax == Dec(5, 1)
lateralOffsetDefault == Dec(0, 1)

speedConverter == Dec(36, 10)
speedMin == Dec(-50, 1)
speedMax == Dec(50, 1)
speedDefault == Div(Dec(100, 1), Dec(36, 10))

fovMin == Dec(5, 1)
fovMax == Dec(175, 1)
fovDefault == Dec(75, 1)

detectionRectangleWidth == Dec(100, 1)
detectionRectangleHeight == Dec(100, 1)

targetMinDistance == Dec(0, 1)
targetMaxDistance == Dec(1500, 1)
\* DriveToolManager reads DriveToolConfig.targetDistance, which the
\* configuration does not define: the field starts undefined.
targetDistanceInitial == undefined

progressMax == Dec(100, 1)
progressMin == Dec(0, 1)

(***************************************************************************)
(* The host: curves, elements, pixels                                      *)
(***************************************************************************)
\* Bounds of the model.
MaxTimers == 2
MaxRpc == 2
MaxPixels == 2

\* Elements of the iModel the user can select or click.
Elements == {"e1", "e2"}
\* The transient id the decoration gives the target.
TargetIds == {"t1"}
\* What the queryPath response for an element parses to: e1 is a curve with
\* a path 50 long, e2 has no path.
queryPath(elementId) ==
    IF elementId = "e1" THEN <<[id |-> "p1", length |-> Dec(50, 1)]>> ELSE <<>>

\* CurveChainWithDistanceIndex.createCapture(path)
createCapture(path) == [id |-> path.id, length |-> path.length, reversed |-> FALSE]
curveLength(curve) == curve.length
reverseInPlace(curve) == [curve EXCEPT !.reversed = ~@]
\* The point of the curve at a fraction, named by the fraction along the
\* curve as it was captured.
fractionToPoint(curve, fraction) ==
    [curve |-> curve.id,
     at |-> IF curve.reversed THEN Sub(Dec(1, 1), fraction) ELSE fraction]
\* The unit tangent there: it points backwards on a reversed curve.
fractionToPointAndUnitTangent(curve, fraction) ==
    [curve |-> curve.id,
     at |-> IF curve.reversed THEN Sub(Dec(1, 1), fraction) ELSE fraction,
     forward |-> ~curve.reversed]

(***************************************************************************)
(* DriveToolManager: each method maps the state before to the state after. *)
(* m holds the manager's fields and the parts of the host it acts on:      *)
(* timers (the interval timers that are set), camera (the view's camera),  *)
(* frustum (what the viewport shows), notifications (the messages output   *)
(* by the handler that is running), selectionSet and rpcPending (for each  *)
(* element, the queryPath calls for it that await their response).         *)
(***************************************************************************)
updateCamera(m) ==
    IF m.viewport = <<>> \/ m.view = <<>> THEN m
    ELSE LET m1 == IF m.positionOnCurve # <<>> /\ m.cameraLookAt # <<>>
                   THEN [m EXCEPT !.camera =
                            <<[position |-> m.positionOnCurve[1],
                               lookAt |-> m.cameraLookAt[1],
                               height |-> m.height,
                               lateralOffset |-> m.lateralOffset,
                               fov |-> m.fov]>>]
                   ELSE m
         IN [m1 EXCEPT !.frustum = m1.camera]

updateProgress(m) ==
    IF m.selectedCurve # <<>>
    THEN updateCamera(
           [m EXCEPT
              !.cameraLookAt = <<fractionToPointAndUnitTangent(m.selectedCurve[1], m.progress)>>,
              !.positionOnCurve = <<fractionToPoint(m.selectedCurve[1], m.progress)>>])
    ELSE m

\* Variant: the clamp written with Math.min and Math.max, which let NaN through.
setProgressMinMax(m, value) ==
    LET v == IF IsNaN(value) THEN NaN
             ELSE IF Lt(value, Dec(0, 1)) THEN Dec(0, 1)
             ELSE IF Gt(value, Dec(1, 1)) THEN Dec(1, 1)
             ELSE value
    IN updateProgress([m EXCEPT !.progress = v])

setProgress(m, value) ==
    LET v1 == IF Gt(value, Dec(0, 1)) THEN value ELSE Dec(0, 1)
        v2 == IF Lt(v1, Dec(1, 1)) THEN v1 ELSE Dec(1, 1)
    IN updateProgress([m EXCEPT !.progress = v2])

setSpeed(m, value) ==
    LET v1 == IF Le(value, speedMax) THEN value ELSE speedMax
        v2 == IF Ge(v1, speedMin) THEN v1 ELSE speedMin
    IN [m EXCEPT !.speed = v2]

\* Variant: the fov clamped with Math.min and Math.max, which let NaN through.
setFovMinMax(m, value) ==
    LET v == IF IsNaN(value) THEN NaN
             ELSE IF Gt(value, fovMax) THEN fovMax
             ELSE IF Lt(value, fovMin) THEN fovMin
             ELSE value
    IN updateCamera([m EXCEPT !.fov = v])

setFov(m, value) ==
    LET v1 == IF Le(value, fovMax) THEN value ELSE fovMax
        v2 == IF Ge(v1, fovMin) THEN v1 ELSE fovMin
    IN updateCamera([m EXCEPT !.fov = v2])

setHeight(m, value) ==
    LET v1 == IF Le(value, heightMax) THEN value ELSE heightMax
        v2 == IF Ge(v1, heightMin) THEN v1 ELSE heightMin
    IN updateCamera([m EXCEPT !.height = v2])

setLateralOffset(m, value) ==
    LET v1 == IF Le(value, lateralOffsetMax) THEN value ELSE lateralOffsetMax
        v2 == IF Ge(v1, lateralOffsetMin) THEN v1 ELSE lateralOffsetMin
    IN updateCamera([m EXCEPT !.lateralOffset = v2])

setTargetDistance(m, value) == [m EXCEPT !.targetDistance = value]

setTargetId(m, id) == [m EXCEPT !.targetId = id]

\* Variant: the distance of a tick multiplied by the length of the curve.
stepTimesLength(m) ==
    IF m.selectedCurve # <<>>
    THEN LET fraction == Mul(Mul(m.speed, intervalTime), curveLength(m.selectedCurve[1]))
         IN setProgress(m, Add(m.progress, fraction))
    ELSE m

step(m) ==
    IF m.selectedCurve # <<>>
    THEN LET fraction == Div(Mul(m.speed, intervalTime), curveLength(m.selectedCurve[1]))
         IN setProgress(m, Add(m.progress, fraction))
    ELSE m

\* setInterval: a new timer, with an id no earlier timer had.
setInterval(m) ==
    [m EXCEPT !.intervalId = <<m.nextTimerId>>,
              !.timers = @ \cup {m.nextTimerId},
              !.nextTimerId = @ + 1]

\* clearTimeout: timeouts and intervals share their ids, so it clears the interval.
clearTimeout(m, id) == [m EXCEPT !.timers = @ \ {id}]

\* Variant: launch() without the test of the moving flag.
launchWhileMoving(m) ==
    IF m.selectedCurve # <<>>
    THEN setInterval(step([m EXCEPT !.moving = TRUE]))
    ELSE m

launch(m) ==
    IF m.selectedCurve # <<>> /\ ~m.moving
    THEN setInterval(step([m EXCEPT !.moving = TRUE]))
    ELSE m

\* Variant: stop() forgets the timer without clearing it.
stopWithoutClear(m) ==
    IF m.intervalId # <<>>
    THEN [m EXCEPT !.moving = FALSE, !.intervalId = <<>>]
    ELSE m

\* Variant: stop() clears the timer and leaves the moving flag set.
stopKeepsMoving(m) ==
    IF m.intervalId # <<>>
    THEN [clearTimeout(m, m.intervalId[1]) EXCEPT !.intervalId = <<>>]
    ELSE m

stop(m) ==
    IF m.intervalId # <<>>
    THEN [clearTimeout([m EXCEPT !.moving = FALSE], m.intervalId[1])
            EXCEPT !.intervalId = <<>>]
    ELSE m

\* Variant: the two branches of toggleMovement() exchanged.
toggleMovementInverted(m) == IF m.moving THEN launch(m) ELSE stop(m)

toggleMovement(m) == IF m.moving THEN stop(m) ELSE launch(m)

toggleTarget(m) == [m EXCEPT !.target = ~@, !.autoStop = ~@]

setDetectZonePoints(m) ==
    IF m.viewport # <<>>
    THEN [m EXCEPT !.detectionZone =
            <<[width |-> detectionRectangleWidth, height |-> detectionRectangleHeight]>>]
    ELSE m

\* The scan of the pixels read back: pixels holds, in scan order, what
\* pixels?.getPixel(x, y)?.elementId gives for each pixel of the rectangle:
\* an element id, or "undefined" (no buffer, or no element at the pixel).
\* The scan stops at the first pixel of the target.
\* Variant: only the first pixel of the rectangle is looked at.
scanFirstPixel(pixels, i, targetId) == Len(pixels) >= i /\ pixels[i] = targetId

RECURSIVE scanPixels(_, _, _)
scanPixels(pixels, i, targetId) ==
    IF i > Len(pixels) THEN FALSE
    ELSE IF pixels[i] = targetId THEN TRUE
    ELSE scanPixels(pixels, i + 1, targetId)

checkIfTargetVisible(m, pixels) ==
    IF m.targetId # <<>> /\ m.viewport # <<>>
    THEN LET hit == scanPixels(pixels, 1, m.targetId[1])
         IN IF ~hit THEN stop(m) ELSE m
    ELSE m

\* The callback launch() gives setInterval.
intervalCallback(m, pixels) ==
    LET m1 == step(m)
    IN IF m1.autoStop THEN checkIfTargetVisible(m1, pixels) ELSE m1

reverseCurve(m) ==
    LET m1 == [m EXCEPT !.progress = Sub(Dec(1, 1), m.progress)]
        m2 == IF m1.selectedCurve # <<>>
              THEN [m1 EXCEPT !.selectedCurve = <<reverseInPlace(m1.selectedCurve[1])>>]
              ELSE m1
    IN updateProgress(m2)

\* setSelectedCurve up to its await: the queryPath call is sent, or the
\* method returns at once.
setSelectedCurveCall(m, elementId) ==
    IF m.selectedCurve # <<>> \/ m.view = <<>> THEN m
    ELSE [m EXCEPT !.rpcPending[elementId] = @ + 1]

\* Variant: setSelectedCurve returns after the warning, the selection set untouched.
setSelectedCurveResumeEarlyReturn(m, elementId, path) ==
    LET m1 == [m EXCEPT !.rpcPending[elementId] = @ - 1]
    IN IF path # <<>>
       THEN [updateProgress([m1 EXCEPT !.selectedCurve = <<createCapture(path[1])>>])
               EXCEPT !.selectionSet = {}]
       ELSE [m1 EXCEPT !.notifications =
               Append(@, <<"Warning", "Can't find path for selected element">>)]

\* setSelectedCurve from its await on: path is <<>> when the response
\* parses to no path.
setSelectedCurveResume(m, elementId, path) ==
    LET m1 == [m EXCEPT !.rpcPending[elementId] = @ - 1]
        m2 == IF path # <<>>
              THEN updateProgress([m1 EXCEPT !.selectedCurve = <<createCapture(path[1])>>])
              ELSE [m1 EXCEPT !.notifications =
                      Append(@, <<"Warning", "Can't find path for selected element">>)]
    IN [m2 EXCEPT !.selectionSet = {}]

\* init(): selectedView is <<>>, or <<v>> with v.is3d telling whether the
\* view is a 3d view that allows 3d manipulations.
init(m, selectedView) ==
    IF selectedView = <<>> THEN [m EXCEPT !.viewport = <<>>]
    ELSE LET m1 == [m EXCEPT !.viewport = <<"viewport">>]
         IN IF ~selectedView[1].is3d THEN m1
            ELSE LET m2 == setDetectZonePoints([m1 EXCEPT !.view = <<"view">>])
                 IN IF Cardinality(m2.selectionSet) = 1
                    THEN setSelectedCurveCall(m2, CHOOSE e \in m2.selectionSet : TRUE)
                    ELSE m2

(***************************************************************************)
(* DriveTool                                                               *)
(***************************************************************************)
PropertyNames == {"height", "lateralOffset", "speed", "fov", "progress", "targetDistance"}

verifyHeight(value) == Ge(value, heightMin) /\ Le(value, heightMax)
verifyLateralOffset(value) == Ge(value, lateralOffsetMin) /\ Le(value, lateralOffsetMax)
\* Variant: the speed in km/h compared with the limits in m/s.
verifySpeedUnconverted(value) == Ge(value, speedMin) /\ Le(value, speedMax)

verifySpeed(value) ==
    Ge(value, Mul(speedMin, speedConverter)) /\ Le(value, Mul(speedMax, speedConverter))
verifyFov(value) == Ge(value, fovMin) /\ Le(value, fovMax)
verifyProgress(value) == Ge(value, progressMin) /\ Le(value, progressMax)
verifyTargetDistance(value) == Ge(value, targetMinDistance) /\ Le(value, targetMaxDistance)

messageInvalid(m, text) == [m EXCEPT !.notifications = Append(@, <<"Warning", text>>)]

applyToolSettingPropertyChange(m, propertyName, value) ==
    LET m1 ==
          CASE propertyName = "height" ->
                 IF verifyHeight(value) THEN setHeight(m, value)
                 ELSE messageInvalid(m, "Can't set height lateral offset to invalid value")
            [] propertyName = "lateralOffset" ->
                 IF verifyLateralOffset(value) THEN setLateralOffset(m, value)
                 ELSE messageInvalid(m, "Can't set target lateral offset to invalid value")
            [] propertyName = "speed" ->
                 IF verifySpeed(value) THEN setSpeed(m, Div(value, Dec(36, 10)))
                 ELSE messageInvalid(m, "Can't set target speed to invalid value")
            [] propertyName = "fov" ->
                 IF verifyFov(value) THEN setFov(m, value)
                 ELSE messageInvalid(m, "Can't set target fov to invalid value")
            [] propertyName = "progress" ->
                 IF verifyProgress(value) THEN setProgress(m, Div(value, Dec(100, 1)))
                 ELSE messageInvalid(m, "Can't set target progress to invalid value")
            [] propertyName = "targetDistance" ->
                 IF verifyTargetDistance(value) THEN setTargetDistance(m, value)
                 ELSE messageInvalid(m, "Can't set target distance to invalid value")
            [] OTHER -> m
    IN updateCamera(m1)

\* decorate(): the target gets its transient id the first time.
decorate(m, nextTransientId) ==
    IF m.targetId = <<>> THEN setTargetId(m, <<nextTransientId>>) ELSE m

\* Variant: onCleanup() leaves the movement running.
onCleanupWithoutStop(m) == m

onCleanup(m) == stop(m)

(***************************************************************************)
(* CustomAttributeClass                                                    *)
(* A JSON value is a tagged pair: undefined, <<"null", 0>>, a number,      *)
(* <<"boolean", b>> or <<"string", s>>. c holds the fields of the class    *)
(* and thrown, the error fromJson ended with (<<>> when it returned).      *)
(***************************************************************************)
null == <<"null", 0>>
Str(s) == <<"string", s>>
Bool(b) == <<"boolean", b>>

\* typeof
typeOf(v) ==
    CASE v[1] = "undefined" -> "undefined"
      [] v[1] = "null" -> "object"
      [] v[1] = "string" -> "string"
      [] v[1] = "boolean" -> "boolean"
      [] OTHER -> "number"

\* The container types the parser knows, by their text.
ContainerTypes ==
    [Schema |-> {"Schema"},
     AnyClass |-> {"EntityClass", "CustomAttributeClass", "StructClass", "RelationshipClass"},
     AnyProperty |-> {"PrimitiveProperty", "StructProperty", "ArrayProperty", "NavigationProperty"},
     Any |-> {"Any"}]

\* parseCustomAttributeContainerType: <<t>> for a text it accepts, <<>> when
\* it throws.
parseCustomAttributeContainerType(text) ==
    IF text \in DOMAIN ContainerTypes THEN <<ContainerTypes[text]>> ELSE <<>>

\* ECClass.fromJson: it throws on a JSON object that describes no valid
\* class, and otherwise loads the attributes of the class.
ECClassFromJson(c, jsonObj) ==
    IF jsonObj.class = "invalid"
    THEN [c EXCEPT !.thrown = <<"InvalidECJson", "ECClass">>]
    ELSE [c EXCEPT !.classLoaded = TRUE]

\* Variant: presence tested with !jsonObj.appliesTo, which takes null, 0,
\* false and "" for a missing attribute.
fromJsonFalsyIsMissing(c, jsonObj) ==
    LET c1 == ECClassFromJson([c EXCEPT !.thrown = <<>>], jsonObj)
        appliesTo == jsonObj.appliesTo
        falsy == \/ appliesTo[1] \in {"undefined", "null", "NaN"}
                 \/ appliesTo \in {Num(0), Bool(FALSE), Str("")}
    IN IF c1.thrown # <<>> THEN c1
       ELSE IF falsy
       THEN [c1 EXCEPT !.thrown = <<"InvalidECJson", "missing the required 'appliesTo' attribute">>]
       ELSE IF typeOf(appliesTo) # "string"
       THEN [c1 EXCEPT !.thrown = <<"InvalidECJson", "invalid 'appliesTo' attribute">>]
       ELSE LET t == parseCustomAttributeContainerType(appliesTo[2])
            IN IF t = <<>>
               THEN [c1 EXCEPT !.thrown = <<"InvalidContainerType", "parseCustomAttributeContainerType">>]
               ELSE [c1 EXCEPT !.containerType = t]

\* Variant: containerType is reset before the attribute is validated.
fromJsonResetsFirst(c, jsonObj) ==
    LET c1 == ECClassFromJson([c EXCEPT !.thrown = <<>>], jsonObj)
        c2 == [c1 EXCEPT !.containerType = <<>>]
        appliesTo == jsonObj.appliesTo
    IN IF c1.thrown # <<>> THEN c1
       ELSE IF appliesTo[1] = "undefined"
       THEN [c2 EXCEPT !.thrown = <<"InvalidECJson", "missing the required 'appliesTo' attribute">>]
       ELSE IF typeOf(appliesTo) # "string"
       THEN [c2 EXCEPT !.thrown = <<"InvalidECJson", "invalid 'appliesTo' attribute">>]
       ELSE LET t == parseCustomAttributeContainerType(appliesTo[2])
            IN IF t = <<>>
               THEN [c2 EXCEPT !.thrown = <<"InvalidContainerType", "parseCustomAttributeContainerType">>]
               ELSE [c2 EXCEPT !.containerType = t]

fromJson(c, jsonObj) ==
    LET c1 == ECClassFromJson([c EXCEPT !.thrown = <<>>], jsonObj)
        appliesTo == jsonObj.appliesTo
    IN IF c1.thrown # <<>> THEN c1
       ELSE IF appliesTo[1] = "undefined"
       THEN [c1 EXCEPT !.thrown = <<"InvalidECJson", "missing the required 'appliesTo' attribute">>]
       ELSE IF typeOf(appliesTo) # "string"
       THEN [c1 EXCEPT !.thrown = <<"InvalidECJson", "invalid 'appliesTo' attribute">>]
       ELSE LET t == parseCustomAttributeContainerType(appliesTo[2])
            IN IF t = <<>>
               THEN [c1 EXCEPT !.thrown = <<"InvalidContainerType", "parseCustomAttributeContainerType">>]
               ELSE [c1 EXCEPT !.containerType = t]

(***************************************************************************)
(* State                                                                   *)
(***************************************************************************)
VARIABLES
    viewport, view, selectedCurve, cameraLookAt, fov, moving, progress,
    positionOnCurve, height, lateralOffset, speed, intervalId, target,
    autoStop, targetDistance, targetId, detectionZone,
    timers, nextTimerId, camera, frustum, notifications, selectionSet,
    rpcPending,
    containerType, \* CustomAttributeClass.containerType: <<>> until it is assigned
    classLoaded,   \* ECClass.fromJson has loaded the attributes of the class
    thrown,        \* the error the last fromJson call threw, <<>> when it returned
    tool,          \* "constructed", "installed" (onPostInstall ran) or "exited" (onCleanup ran)
    lastOp,        \* the handler that ran last, with its input
    movingBefore   \* the moving flag before that handler ran

vars == <<viewport, view, selectedCurve, cameraLookAt, fov, moving, progress,
          positionOnCurve, height, lateralOffset, speed, intervalId, target,
          autoStop, targetDistance, targetId, detectionZone,
          timers, nextTimerId, camera, frustum, notifications, selectionSet,
          rpcPending, containerType, classLoaded, thrown,
          tool, lastOp, movingBefore>>

\* The manager's fields and the host state it acts on.
Fields == <<viewport, view, selectedCurve, cameraLookAt, fov, moving, progress,
            positionOnCurve, height, lateralOffset, speed, intervalId, target,
            autoStop, targetDistance, targetId, detectionZone, timers,
            nextTimerId, camera, frustum, selectionSet, rpcPending>>

\* The state a handler starts from: it has output no message yet.
M == [viewport |-> viewport, view |-> view, selectedCurve |-> selectedCurve,
      cameraLookAt |-> cameraLookAt, fov |-> fov, moving |-> moving,
      progress |-> progress, positionOnCurve |-> positionOnCurve,
      height |-> height, lateralOffset |-> lateralOffset, speed |-> speed,
      intervalId |-> intervalId, target |-> target, autoStop |-> autoStop,
      targetDistance |-> targetDistance, targetId |-> targetId,
      detectionZone |-> detectionZone, timers |-> timers,
      nextTimerId |-> nextTimerId, camera |-> camera, frustum |-> frustum,
      notifications |-> <<>>, selectionSet |-> selectionSet,
      rpcPending |-> rpcPending]

\* The handler named op, with input arg, takes the state to r.
Commit(r, op, arg) ==
    /\ viewport' = r.viewport
    /\ view' = r.view
    /\ selectedCurve' = r.selectedCurve
    /\ cameraLookAt' = r.cameraLookAt
    /\ fov' = r.fov
    /\ moving' = r.moving
    /\ progress' = r.progress
    /\ positionOnCurve' = r.positionOnCurve
    /\ height' = r.height
    /\ lateralOffset' = r.lateralOffset
    /\ speed' = r.speed
    /\ intervalId' = r.intervalId
    /\ target' = r.target
    /\ autoStop' = r.autoStop
    /\ targetDistance' = r.targetDistance
    /\ targetId' = r.targetId
    /\ detectionZone' = r.detectionZone
    /\ timers' = r.timers
    /\ nextTimerId' = r.nextTimerId
    /\ camera' = r.camera
    /\ frustum' = r.frustum
    /\ notifications' = r.notifications
    /\ selectionSet' = r.selectionSet
    /\ rpcPending' = r.rpcPending
    /\ lastOp' = [name |-> op, arg |-> arg]
    /\ movingBefore' = moving
    /\ UNCHANGED <<containerType, classLoaded, thrown>>

\* The state after construction: the field initialisers of DriveToolManager,
\* a selection set of the iModel that holds any of the elements, and a
\* CustomAttributeClass whose containerType is not assigned yet.
Init ==
    /\ containerType = <<>>
    /\ classLoaded = FALSE
    /\ thrown = <<>>
    /\ viewport = <<>>
    /\ view = <<>>
    /\ selectedCurve = <<>>
    /\ cameraLookAt = <<>>
    /\ fov = fovDefault
    /\ moving = FALSE
    /\ progress = Dec(0, 1)
    /\ positionOnCurve = <<>>
    /\ height = heightDefault
    /\ lateralOffset = lateralOffsetDefault
    /\ speed = speedDefault
    /\ intervalId = <<>>
    /\ target = FALSE
    /\ autoStop = FALSE
    /\ targetDistance = targetDistanceInitial
    /\ targetId = <<>>
    /\ detectionZone = <<>>
    /\ timers = {}
    /\ nextTimerId = 1
    /\ camera = <<>>
    /\ frustum = <<>>
    /\ notifications = <<>>
    /\ selectionSet \in SUBSET Elements
    /\ rpcPending = [e \in Elements |-> 0]
    /\ tool = "constructed"
    /\ lastOp = [name |-> "constructor", arg |-> <<>>]
    /\ movingBefore = FALSE

(***************************************************************************)
(* Inputs                                                                  *)
(***************************************************************************)
\* IModelApp.viewManager.selectedView when the tool is installed.
SelectedViews == {<<>>, <<[is3d |-> TRUE]>>, <<[is3d |-> FALSE]>>}
\* What the locate finds under a click.
Hits == {<<>>} \cup {<<e>> : e \in Elements}
\* What a pixel of the detection rectangle shows.
PixelIds == TargetIds \cup {"undefined"}
PixelBuffers == [1..MaxPixels -> PixelIds]
\* Values given to the progress and speed setters.
ProgressInputs == {NaN, Infinity, Dec(-1, 1), Dec(5, 10), Dec(2, 1)}
SpeedInputs == {NaN, NegInfinity, Dec(50, 1), Dec(1000, 1)}
\* Values given to the speed, fov, height and lateral offset setters.
SetterInputs == {NaN, Infinity, NegInfinity, Dec(-1000, 1), Dec(0, 1), Dec(7, 1), Dec(1000, 1)}
\* The JSON objects given to CustomAttributeClass.fromJson.
AppliesToValues ==
    {undefined, null, Num(0), Dec(5, 1), Bool(FALSE), Bool(TRUE),
     Str(""), Str("Schema"), Str("AnyClass"), Str("AnyProperty"), Str("Any"),
     Str("NotAContainer")}
JsonObjects == [class : {"valid", "invalid"}, appliesTo : AppliesToValues]
\* Values typed into the tool settings.
ToolValues == {NaN, Dec(-200, 1), Dec(5, 1), Dec(90, 1), Dec(2000, 1)}

(***************************************************************************)
(* Actions: one per handler                                                *)
(***************************************************************************)
\* The number of queryPath calls awaiting their response.
RECURSIVE SumOver(_, _)
SumOver(f, S) ==
    IF S = {} THEN 0
    ELSE LET e == CHOOSE x \in S : TRUE IN f[e] + SumOver(f, S \ {e})
InFlight(pending) == SumOver(pending, DOMAIN pending)

OnPostInstall(selectedView) ==
    /\ tool = "constructed"
    /\ Commit(init(M, selectedView), "onPostInstall", <<selectedView>>)
    /\ tool' = "installed"

OnDataButtonDown(hit) ==
    /\ tool = "installed"
    /\ LET r == IF hit # <<>> THEN setSelectedCurveCall(M, hit[1]) ELSE M
       IN /\ InFlight(r.rpcPending) <= MaxRpc
          /\ Commit(r, "onDataButtonDown", <<hit>>)
    /\ UNCHANGED tool

\* The response of a queryPath call for elementId arrives.
QueryPathResponse(elementId) ==
    /\ rpcPending[elementId] > 0
    /\ Commit(setSelectedCurveResume(M, elementId, queryPath(elementId)),
              "queryPathResponse", <<elementId>>)
    /\ UNCHANGED tool

Decorate(nextTransientId) ==
    /\ tool = "installed"
    /\ Commit(decorate(M, nextTransientId), "decorate", <<>>)
    /\ UNCHANGED tool

Launch ==
    /\ tool = "installed"
    /\ LET r == launch(M)
       IN /\ r.nextTimerId <= MaxTimers + 1
          /\ Commit(r, "launch", <<>>)
    /\ UNCHANGED tool

Stop ==
    /\ tool = "installed"
    /\ Commit(stop(M), "stop", <<>>)
    /\ UNCHANGED tool

ToggleMovement ==
    /\ tool = "installed"
    /\ LET r == toggleMovement(M)
       IN /\ r.nextTimerId <= MaxTimers + 1
          /\ Commit(r, "toggleMovement", <<>>)
    /\ UNCHANGED tool

ReverseCurve ==
    /\ tool = "installed"
    /\ Commit(reverseCurve(M), "reverseCurve", <<>>)
    /\ UNCHANGED tool

ToggleTarget ==
    /\ tool = "installed"
    /\ Commit(toggleTarget(M), "toggleTarget", <<>>)
    /\ UNCHANGED tool

SetProgress(value) ==
    /\ tool = "installed"
    /\ Commit(setProgress(M, value), "setProgress", <<value>>)
    /\ UNCHANGED tool

SetSpeed(value) ==
    /\ tool = "installed"
    /\ Commit(setSpeed(M, value), "setSpeed", <<value>>)
    /\ UNCHANGED tool

SetFov(value) ==
    /\ tool = "installed"
    /\ Commit(setFov(M, value), "setFov", <<value>>)
    /\ UNCHANGED tool

SetHeight(value) ==
    /\ tool = "installed"
    /\ Commit(setHeight(M, value), "setHeight", <<value>>)
    /\ UNCHANGED tool

SetLateralOffset(value) ==
    /\ tool = "installed"
    /\ Commit(setLateralOffset(M, value), "setLateralOffset", <<value>>)
    /\ UNCHANGED tool

\* An interval timer that is set fires.
TimerTick(id, pixels) ==
    /\ id \in timers
    /\ Commit(intervalCallback(M, pixels), "tick", <<pixels>>)
    /\ UNCHANGED tool

OnCleanup ==
    /\ tool = "installed"
    /\ Commit(onCleanup(M), "onCleanup", <<>>)
    /\ tool' = "exited"

ApplyToolSettingPropertyChange(propertyName, value) ==
    /\ tool = "installed"
    /\ Commit(applyToolSettingPropertyChange(M, propertyName, value),
              "applyToolSettingPropertyChange", <<propertyName, value>>)
    /\ UNCHANGED tool

Next ==
    \/ \E selectedView \in SelectedViews : OnPostInstall(selectedView)
    \/ \E hit \in Hits : OnDataButtonDown(hit)
    \/ \E elementId \in Elements : QueryPathResponse(elementId)
    \/ \E id \in TargetIds : Decorate(id)
    \/ Launch
    \/ Stop
    \/ ToggleMovement
    \/ ReverseCurve
    \/ ToggleTarget
    \/ \E value \in ProgressInputs : SetProgress(value)
    \/ \E value \in SpeedInputs : SetSpeed(value)
    \/ \E id \in timers, pixels \in PixelBuffers : TimerTick(id, pixels)
    \/ OnCleanup

Spec == Init /\ [][Next]_vars

\* The tool settings: the tool is installed, the curve of the element that
\* was selected arrives, and the user edits the settings.
NextTool ==
    \/ \E selectedView \in SelectedViews : OnPostInstall(selectedView)
    \/ \E elementId \in Elements : QueryPathResponse(elementId)
    \/ \E propertyName \in PropertyNames, value \in ToolValues :
          ApplyToolSettingPropertyChange(propertyName, value)

SpecTool == Init /\ [][NextTool]_vars

\* CustomAttributeClass.fromJson is called, any number of times, on one class.
FromJson(jsonObj) ==
    /\ LET r == fromJson([containerType |-> containerType,
                          classLoaded |-> classLoaded,
                          thrown |-> thrown], jsonObj)
       IN /\ containerType' = r.containerType
          /\ classLoaded' = r.classLoaded
          /\ thrown' = r.thrown
    /\ lastOp' = [name |-> "fromJson", arg |-> <<jsonObj>>]
    /\ UNCHANGED <<Fields, notifications, tool, movingBefore>>

NextCustomAttributeClass == \E jsonObj \in JsonObjects : FromJson(jsonObj)

SpecCustomAttributeClass == Init /\ [][NextCustomAttributeClass]_vars

\* The setters: the tool is installed, the curve of the element that was
\* selected arrives, and the speed, fov, height and lateral offset are set
\* to any values.
NextSetters ==
    \/ \E selectedView \in SelectedViews : OnPostInstall(selectedView)
    \/ \E elementId \in Elements : QueryPathResponse(elementId)
    \/ \E value \in SetterInputs : SetSpeed(value)
    \/ \E value \in SetterInputs : SetFov(value)
    \/ \E value \in SetterInputs : SetHeight(value)
    \/ \E value \in SetterInputs : SetLateralOffset(value)

SpecSetters == Init /\ [][NextSetters]_vars

(***************************************************************************)
(* Properties                                                              *)
(***************************************************************************)
\* The handler that ran last output a warning.
Warned == notifications # <<>> /\ \A i \in DOMAIN notifications : notifications[i][1] = "Warning"

\* lo <= v <= hi for a finite v.
Within(v, lo, hi) == IsFinite(v) /\ lo[2] <= v[2] /\ v[2] <= hi[2]

\* x clamped to [0, 1], for a finite or infinite x.
ClampUnit(x) ==
    IF IsInf(x) THEN (IF x[2] > 0 THEN Num(Scale) ELSE Num(0))
    ELSE IF x[2] < 0 THEN Num(0)
    ELSE IF x[2] > Scale THEN Num(Scale)
    ELSE x

\* C1: in every reachable state the progress is a number of [0, 1], whatever
\* values the progress setter was given and whatever ticks, reversals,
\* launches, stops and toggles happened.
C1_ProgressInUnitInterval ==
    /\ IsFinite(progress)
    /\ progress[2] >= 0
    /\ progress[2] <= Scale

\* The progress setter has been given NaN while a curve was selected.
C1_Witness ==
    /\ lastOp.name = "setProgress"
    /\ lastOp.arg[1] = NaN
    /\ selectedCurve # <<>>
    /\ progress = Num(0)

\* C2: a timer tick with a curve selected replaces progress p by
\* clamp(p + speed * intervalTime / curveLength, 0, 1) with the speed of the
\* moment; it does not decrease progress when the speed is positive nor
\* increase it when the speed is negative; with no curve selected it leaves
\* progress as it is.
C2_TickAdvancesProgress ==
    [][lastOp'.name = "tick" =>
         IF selectedCurve # <<>>
         THEN LET length == selectedCurve[1].length
                  sum == Add(progress, Div(Mul(speed, intervalTime), length))
              IN /\ ~IsNaN(sum) => progress' = ClampUnit(sum)
                 /\ Gt(speed, Num(0)) => Ge(progress', progress)
                 /\ Lt(speed, Num(0)) => Le(progress', progress)
         ELSE progress' = progress]_vars

\* A tick with a curve selected has left the progress strictly inside (0, 1).
C2_Witness ==
    /\ lastOp.name = "tick"
    /\ selectedCurve # <<>>
    /\ Gt(progress, Num(0))
    /\ Lt(progress, Num(Scale))

\* C3: launch() with a curve selected and the manager not moving sets moving
\* and installs a new interval timer; with no curve selected, or when already
\* moving, it changes neither moving, nor the timer, nor progress.
C3_LaunchGuard ==
    [][lastOp'.name = "launch" =>
         IF selectedCurve # <<>> /\ ~moving
         THEN /\ moving'
              /\ intervalId' # <<>>
              /\ intervalId'[1] \notin timers
              /\ timers' = timers \cup {intervalId'[1]}
         ELSE /\ moving' = moving
              /\ intervalId' = intervalId
              /\ timers' = timers
              /\ progress' = progress]_vars

\* A launch has started the movement.
C3_Witness ==
    /\ lastOp.name = "launch"
    /\ ~movingBefore
    /\ moving
    /\ timers # {}

\* C4: at most one interval timer is set at any time, and it is the one
\* _intervalId names: no timer of an earlier launch outlives a later launch.
C4_AtMostOneTimer ==
    /\ Cardinality(timers) <= 1
    /\ \A id \in timers : intervalId = <<id>>

\* A launch after an earlier launch has installed its timer.
C4_Witness ==
    /\ lastOp.name \in {"launch", "toggleMovement"}
    /\ nextTimerId > 2
    /\ ~movingBefore
    /\ timers # {}

\* C5: after stop() the manager is not moving and no timer is set; while it
\* is not moving no timer tick happens, so none changes progress until the
\* next launch; and stop() on a manager that is not moving changes nothing.
C5_StopStops ==
    [][/\ lastOp'.name = "stop" =>
            /\ ~moving'
            /\ timers' = {}
            /\ intervalId' = <<>>
            /\ ~moving => Fields' = Fields
       /\ ~moving => lastOp'.name # "tick"]_vars

\* A stop() has ended a movement.
C5_Witness ==
    /\ lastOp.name = "stop"
    /\ movingBefore
    /\ ~moving

\* C6: toggleMovement() does what stop() does when moving and what launch()
\* does when not moving: with a curve selected it flips the moving flag (a
\* timer is set exactly when moving), so that two calls in a row restore the
\* flag; with no curve selected it leaves moving false.
C6_ToggleFlips ==
    [][lastOp'.name = "toggleMovement" =>
         /\ IF selectedCurve # <<>>
            THEN moving' = ~moving
            ELSE ~moving /\ ~moving' /\ Fields' = Fields
         /\ moving => timers' = {} /\ intervalId' = <<>> /\ progress' = progress
         /\ moving' => intervalId' # <<>> /\ timers' = {intervalId'[1]}
         /\ lastOp.name = "toggleMovement" => moving' = movingBefore]_vars

\* A toggleMovement() has stopped a movement.
C6_Witness ==
    /\ lastOp.name = "toggleMovement"
    /\ selectedCurve # <<>>
    /\ movingBefore
    /\ ~moving

\* C7: onCleanup() leaves the manager not moving with no timer set, and once
\* the tool has exited it stays so: no timer tick happens any more.
C7_CleanupStops ==
    [][/\ lastOp'.name = "onCleanup" => ~moving' /\ timers' = {} /\ intervalId' = <<>>
       /\ tool = "exited" => ~moving' /\ timers' = {} /\ lastOp'.name # "tick"]_vars

\* The tool has exited while it was moving.
C7_Witness ==
    /\ tool = "exited"
    /\ lastOp.name = "onCleanup"
    /\ movingBefore
    /\ ~moving

\* C8 as stated: a queryPath response with no path leaves the selected curve
\* unset, outputs a warning and empties the selection set; a response with a
\* path sets the curve, derives position and look-at from the progress and
\* empties the selection set.
C8_AsStated ==
    [][lastOp'.name = "queryPathResponse" =>
         LET path == queryPath(lastOp'.arg[1])
         IN IF path = <<>>
            THEN /\ selectedCurve' = <<>>
                 /\ Warned'
                 /\ selectionSet' = {}
            ELSE /\ selectedCurve' = <<[id |-> path[1].id, length |-> path[1].length,
                                        reversed |-> FALSE]>>
                 /\ positionOnCurve' = <<[curve |-> path[1].id, at |-> progress]>>
                 /\ cameraLookAt' = <<[curve |-> path[1].id, at |-> progress,
                                       forward |-> TRUE]>>
                 /\ selectionSet' = {}]_vars

\* C8, amended: a response with no path leaves the selected curve as it is
\* (unset, unless another setSelectedCurve call that was in flight has set it
\* meanwhile), so that it does not enable launch; the rest as stated.
C8_SetSelectedCurve ==
    [][lastOp'.name = "queryPathResponse" =>
         LET path == queryPath(lastOp'.arg[1])
         IN IF path = <<>>
            THEN /\ selectedCurve' = selectedCurve
                 /\ positionOnCurve' = positionOnCurve
                 /\ cameraLookAt' = cameraLookAt
                 /\ moving' = moving
                 /\ Warned'
                 /\ selectionSet' = {}
            ELSE /\ selectedCurve' = <<[id |-> path[1].id, length |-> path[1].length,
                                        reversed |-> FALSE]>>
                 /\ positionOnCurve' = <<[curve |-> path[1].id, at |-> progress]>>
                 /\ cameraLookAt' = <<[curve |-> path[1].id, at |-> progress,
                                       forward |-> TRUE]>>
                 /\ progress' = progress
                 /\ selectionSet' = {}]_vars

\* A response with no path has arrived: the curve is still unset, a warning
\* is out and the selection set is empty.
C8_Witness ==
    /\ lastOp.name = "queryPathResponse"
    /\ queryPath(lastOp.arg[1]) = <<>>
    /\ selectedCurve = <<>>
    /\ Warned
    /\ selectionSet = {}

\* C9: a timer tick while moving with auto-stop enabled, a target id set and
\* a viewport present stops the movement (moving false, timer cleared) when
\* no pixel read back shows the target, and leaves it running when at least
\* one does; with auto-stop disabled a tick never stops the movement.
C9_AutoStop ==
    [][lastOp'.name = "tick" =>
         LET pixels == lastOp'.arg[1]
             seen == \E i \in DOMAIN pixels : <<pixels[i]>> = targetId
             checked == autoStop /\ targetId # <<>> /\ viewport # <<>>
         IN /\ moving /\ checked /\ ~seen =>
                  ~moving' /\ timers' = {} /\ intervalId' = <<>>
            /\ moving /\ checked /\ seen =>
                  moving' /\ timers' = timers /\ intervalId' = intervalId
            /\ moving /\ ~autoStop =>
                  moving' /\ timers' = timers /\ intervalId' = intervalId]_vars

\* A tick has stopped the movement.
C9_Witness ==
    /\ lastOp.name = "tick"
    /\ autoStop
    /\ targetId # <<>>
    /\ movingBefore
    /\ ~moving

\* C10: applyToolSettingPropertyChange stores a value that lies in the range
\* of its property (the speed, given in km/h, divided by 3.6; the progress,
\* given in percent, divided by 100) and, for a value outside the range,
\* leaves the setting as it is and outputs a warning.
C10_ToolSettingRange ==
    [][lastOp'.name = "applyToolSettingPropertyChange" =>
         LET name == lastOp'.arg[1]
             value == lastOp'.arg[2]
         IN /\ name = "height" =>
                 IF Within(value, heightMin, heightMax)
                 THEN height' = value
                 ELSE height' = height /\ Warned'
            /\ name = "lateralOffset" =>
                 IF Within(value, lateralOffsetMin, lateralOffsetMax)
                 THEN lateralOffset' = value
                 ELSE lateralOffset' = lateralOffset /\ Warned'
            /\ name = "speed" =>
                 IF IsFinite(value) /\ 10 * speedMin[2] * 36 <= 100 * value[2]
                                    /\ 100 * value[2] <= 10 * speedMax[2] * 36
                 THEN IsFinite(speed') /\ speed'[2] * 36 = value[2] * 10
                 ELSE speed' = speed /\ Warned'
            /\ name = "fov" =>
                 IF Within(value, fovMin, fovMax)
                 THEN fov' = value
                 ELSE fov' = fov /\ Warned'
            /\ name = "progress" =>
                 IF Within(value, progressMin, progressMax)
                 THEN IsFinite(progress') /\ progress'[2] * 100 = value[2]
                 ELSE progress' = progress /\ Warned'
            /\ name = "targetDistance" =>
                 IF Within(value, targetMinDistance, targetMaxDistance)
                 THEN targetDistance' = value
                 ELSE targetDistance' = targetDistance /\ Warned']_vars

\* A speed outside the range has been refused with a warning.
C10_Witness ==
    /\ lastOp.name = "applyToolSettingPropertyChange"
    /\ lastOp.arg[1] = "speed"
    /\ lastOp.arg[2] = Dec(2000, 1)
    /\ speed = speedDefault
    /\ Warned

\* C11: in every reachable state, the initial one included, the speed lies
\* in [speedMin, speedMax], the fov in [fovMin, fovMax], the height in
\* [heightMin, heightMax] and the lateral offset in [lateralOffsetMin,
\* lateralOffsetMax], whatever values the setters were given.
C11_SettingsInRange ==
    /\ Within(speed, speedMin, speedMax)
    /\ Within(fov, fovMin, fovMax)
    /\ Within(height, heightMin, heightMax)
    /\ Within(lateralOffset, lateralOffsetMin, lateralOffsetMax)

\* Every one of the four setters has been given a value outside its range:
\* the last call gave NaN, and the other three settings sit at a limit.
C11_Witness ==
    /\ lastOp.name \in {"setSpeed", "setFov", "setHeight", "setLateralOffset"}
    /\ lastOp.arg[1] = NaN
    /\ speed = speedMax
    /\ fov = fovMax
    /\ height = heightMin
    /\ lateralOffset = lateralOffsetMin

\* The two errors of the validation of 'appliesTo'.
MissingAppliesTo == <<"InvalidECJson", "missing the required 'appliesTo' attribute">>
InvalidAppliesTo == <<"InvalidECJson", "invalid 'appliesTo' attribute">>
\* The texts the container-type parser accepts.
AcceptedTexts == {"Schema", "AnyClass", "AnyProperty", "Any"}

\* C12: fromJson validates 'appliesTo' once the fromJson of the base class
\* has succeeded: an undefined appliesTo fails with InvalidECJson (missing
\* attribute), one that is defined and not a string, null included, fails
\* with InvalidECJson (invalid attribute), and the call succeeds only for a
\* string the container-type parser accepts.
C12_AppliesToValidated ==
    [][lastOp'.name = "fromJson" =>
         LET jsonObj == lastOp'.arg[1]
             appliesTo == jsonObj.appliesTo
             isString == appliesTo[1] = "string"
         IN /\ jsonObj.class = "invalid" =>
                 thrown' # <<>> /\ thrown' \notin {MissingAppliesTo, InvalidAppliesTo}
            /\ jsonObj.class = "valid" /\ appliesTo[1] = "undefined" =>
                 thrown' = MissingAppliesTo
            /\ jsonObj.class = "valid" /\ appliesTo[1] # "undefined" /\ ~isString =>
                 thrown' = InvalidAppliesTo
            /\ thrown' = <<>> <=>
                 /\ jsonObj.class = "valid"
                 /\ isString
                 /\ appliesTo[2] \in AcceptedTexts]_vars

\* A null appliesTo has been refused as an invalid attribute.
C12_Witness ==
    /\ lastOp.name = "fromJson"
    /\ lastOp.arg[1].class = "valid"
    /\ lastOp.arg[1].appliesTo = null
    /\ thrown = InvalidAppliesTo

\* C13: a fromJson call that fails because appliesTo is missing or is not a
\* string leaves containerType as it was before the call, and a call that
\* succeeds leaves it equal to the container type parsed from appliesTo.
C13_ContainerTypeOnSuccess ==
    [][lastOp'.name = "fromJson" =>
         /\ thrown' \in {MissingAppliesTo, InvalidAppliesTo} =>
               containerType' = containerType
         /\ thrown' = <<>> =>
               containerType' = <<ContainerTypes[lastOp'.arg[1].appliesTo[2]]>>]_vars

\* A call without appliesTo has failed on a class whose containerType an
\* earlier call had assigned, and the containerType is still there.
C13_Witness ==
    /\ lastOp.name = "fromJson"
    /\ lastOp.arg[1].appliesTo = undefined
    /\ thrown = MissingAppliesTo
    /\ containerType = <<ContainerTypes["Schema"]>>
====
